---- MODULE Spec2Model ----
(***************************************************************************)
(* Display formatting helpers of ui/src/overridden/utils.js:               *)
(* renderCallNumber, shelfLink, shelfLinkComponent and getDisplayVal.      *)
(*                                                                         *)
(* JavaScript values are tagged records.  A string is the sequence of its  *)
(* characters, so that template literals are concatenations and            *)
(* JSON.stringify really quotes and escapes.  A call either returns a      *)
(* value or throws; both are outcomes.                                     *)
(***************************************************************************)
EXTENDS Integers, Sequences, FiniteSets

VARIABLES invenioConfig, item, call, out, rendered

vars == <<invenioConfig, item, call, out, rendered>>

---------------------------------------------------------------------------
(* Bounds of the explored inputs *)

MaxIdentifiers == 2
MaxEntries == 2

---------------------------------------------------------------------------
(* JavaScript values *)

Undefined == [t |-> "undefined"]
Null == [t |-> "null"]
Absent == [t |-> "absent"]
Str(s) == [t |-> "string", chars |-> s]
Bool(b) == [t |-> "boolean", b |-> b]
Num(n) == [t |-> "number", n |-> n]
Arr(s) == [t |-> "array", elems |-> s]

\* An object literal: the pairs <<key, value>> in insertion order; a pair
\* whose value is Absent is a property the literal does not have.
Obj(pairs) ==
  LET present == SelectSeq(pairs, LAMBDA p : p[2] # Absent)
  IN  [t |-> "object",
       keys |-> [i \in 1..Len(present) |-> present[i][1]],
       props |-> [k \in {present[i][1] : i \in 1..Len(present)} |->
                    (CHOOSE p \in {present[i] : i \in 1..Len(present)} : p[1] = k)[2]]]

Return(v) == [kind |-> "return", value |-> v]
Throw(e) == [kind |-> "throw", value |-> [t |-> "error", name |-> e]]

\* obj.key
Prop(obj, key) ==
  IF obj.t = "object" /\ key \in DOMAIN obj.props THEN obj.props[key] ELSE Undefined

\* if (v), v && ...
Truthy(v) ==
  CASE v.t = "undefined" -> FALSE
    [] v.t = "null" -> FALSE
    [] v.t = "boolean" -> v.b
    [] v.t = "number" -> v.n # 0
    [] v.t = "string" -> Len(v.chars) > 0
    [] OTHER -> TRUE

Digits == <<"0", "1", "2", "3", "4", "5", "6", "7", "8", "9">>

\* ${v} inside a template literal
TemplateString(v) ==
  CASE v.t = "undefined" -> <<"u", "n", "d", "e", "f", "i", "n", "e", "d">>
    [] v.t = "null" -> <<"n", "u", "l", "l">>
    [] v.t = "boolean" -> IF v.b THEN <<"t", "r", "u", "e">> ELSE <<"f", "a", "l", "s", "e">>
    [] v.t = "number" -> <<Digits[v.n + 1]>>
    [] v.t = "string" -> v.chars

\* Variant: a == b, which converts between a number and a string
LooseEq(a, b) ==
  \/ a = b
  \/ {a.t, b.t} = {"number", "string"} /\ TemplateString(a) = TemplateString(b)
  \/ {a.t, b.t} = {"undefined", "null"}

\* a === b
StrictEq(a, b) == a = b

\* Variant: the last element whose property key is value
FindLastFrom(elems, key, value, i) ==
  LET m == {j \in i..Len(elems) : StrictEq(Prop(elems[j], key), value)}
  IN  IF m = {} THEN Undefined
      ELSE elems[CHOOSE j \in m : \A k \in m : k <= j]

\* array.find((e) => e.key === value): the first such element, else undefined
RECURSIVE FindFrom(_, _, _, _)
FindFrom(elems, key, value, i) ==
  IF i > Len(elems) THEN Undefined
  ELSE IF StrictEq(Prop(elems[i], key), value) THEN elems[i]
  ELSE FindFrom(elems, key, value, i + 1)

\* receiver.find((e) => e.key === value): a TypeError when the receiver is
\* not an array
Find(receiver, key, value) ==
  IF receiver.t = "array" THEN Return(FindFrom(receiver.elems, key, value, 1))
  ELSE Throw("TypeError")

\* Variant: receiver?.key
MemberOptional(receiver, key) ==
  IF receiver.t \in {"undefined", "null"} THEN Return(Undefined)
  ELSE Return(Prop(receiver, key))

\* receiver.key: a TypeError on undefined and null
Member(receiver, key) ==
  IF receiver.t \in {"undefined", "null"} THEN Throw("TypeError")
  ELSE Return(Prop(receiver, key))

\* Variant: the default value is ignored
_getNoDefault(object, key, defaultValue) == Prop(object, key)

\* lodash get(object, key, defaultValue) for a one-segment path
_get(object, key, defaultValue) ==
  LET resolved == Prop(object, key)
  IN  IF resolved = Undefined THEN defaultValue ELSE resolved

\* The characters of a JSON string literal
RECURSIVE JsonEscape(_)
JsonEscape(s) ==
  IF s = <<>> THEN <<>>
  ELSE (IF Head(s) \in {"\"", "\\"} THEN <<"\\", Head(s)>> ELSE <<Head(s)>>)
         \o JsonEscape(Tail(s))

JsonQuote(s) == <<"\"">> \o JsonEscape(s) \o <<"\"">>

\* JSON.stringify of a value that is not an object
JsonScalar(v) ==
  CASE v.t = "null" -> <<"n", "u", "l", "l">>
    [] v.t = "string" -> JsonQuote(v.chars)
    [] v.t = "boolean" -> TemplateString(v)
    [] v.t = "number" -> TemplateString(v)

\* The members of an object, in insertion order; undefined ones are omitted
RECURSIVE JsonMembers(_, _, _)
JsonMembers(obj, i, first) ==
  IF i > Len(obj.keys) THEN <<>>
  ELSE LET k == obj.keys[i]
           v == obj.props[k]
       IN  IF v = Undefined THEN JsonMembers(obj, i + 1, first)
           ELSE (IF first THEN <<>> ELSE <<",">>)
                  \o JsonQuote(k) \o <<":">> \o JsonScalar(v)
                  \o JsonMembers(obj, i + 1, FALSE)

\* JSON.stringify(v) for flat values
JSONstringify(v) ==
  CASE v.t = "undefined" -> Undefined
    [] v.t = "object" -> Str(<<"{">> \o JsonMembers(v, 1, TRUE) \o <<"}">>)
    [] OTHER -> Str(JsonScalar(v))

---------------------------------------------------------------------------
(* String constants of the source *)

K_identifiers == <<"i", "d", "e", "n", "t", "i", "f", "i", "e", "r", "s">>
K_scheme == <<"s", "c", "h", "e", "m", "e">>
K_value == <<"v", "a", "l", "u", "e">>
K_text == <<"t", "e", "x", "t">>
K_shelf == <<"s", "h", "e", "l", "f">>
K_title == <<"t", "i", "t", "l", "e">>
K_Title == <<"T", "i", "t", "l", "e">>
K_CallNumber == <<"C", "a", "l", "l", " ", "n", "u", "m", "b", "e", "r">>
K_popupContent == <<"p", "o", "p", "u", "p", "C", "o", "n", "t", "e", "n", "t">>
K_iframe == <<"i", "f", "r", "a", "m", "e">>

CALL_NUMBER == <<"C", "A", "L", "L", "_", "N", "U", "M", "B", "E", "R">>
ShelfUrlPrefix == <<"h", "t", "t", "p", "s", ":", "/", "/", "m", "a", "p", "s", ".", "w", "e", "b", ".", "c", "e", "r", "n", ".", "c", "h", "/", "?", "n", "=", "[", "'", "S", "H", "E", "L", "F", " ">>
ShelfUrlSuffix == <<"'", "]">>
PopupParam == <<"&", "p", "o", "p", "u", "p", "C", "o", "n", "t", "e", "n", "t", "=">>
IframeParams == <<"&", "s", "h", "o", "w", "M", "e", "n", "u", "=", "f", "a", "l", "s", "e", "&", "w", "i", "d", "g", "e", "t", "s", "=", "&", "s", "c", "a", "l", "e", "=", "2", "0", "0">>
DefaultIconName == <<"m", "a", "p", " ", "p", "i", "n">>

---------------------------------------------------------------------------
(* The four helpers *)

\* A parameter or destructured property with a default value
Default(v, d) == IF v = Undefined THEN d ELSE v

\* Variant: without the null check on identifiers
renderCallNumberNoNullCheck(it) ==
  LET identifiers == _get(it, K_identifiers, Arr(<<>>))
      found == Find(identifiers, K_scheme, Str(CALL_NUMBER))
  IN  IF found.kind = "throw" THEN found
      ELSE IF Truthy(found.value)
           THEN Return(Str(<<"(">> \o TemplateString(Prop(found.value, K_value))
                           \o <<")">>))
           ELSE Return(Null)

renderCallNumber(it) ==
  LET identifiers == _get(it, K_identifiers, Arr(<<>>))
  IN  IF StrictEq(identifiers, Null) THEN Return(Null)
      ELSE LET found == Find(identifiers, K_scheme, Str(CALL_NUMBER))
           IN  IF found.kind = "throw" THEN found
               ELSE LET callNumber == found.value
                    IN  IF Truthy(callNumber)
                        THEN Return(Str(<<"(">>
                                        \o TemplateString(Prop(callNumber, K_value))
                                        \o <<")">>))
                        ELSE Return(Null)

\* Variant: the iframe parameters are appended before the popup content
shelfLinkIframeFirst(shelfNumber, options) ==
  IF options.t \in {"undefined", "null"} THEN Throw("TypeError")
  ELSE
    LET popupContent == Default(Prop(options, K_popupContent), Null)
        iframe == Default(Prop(options, K_iframe), Bool(FALSE))
        link0 == ShelfUrlPrefix \o TemplateString(shelfNumber) \o ShelfUrlSuffix
        link1 == IF Truthy(iframe) THEN link0 \o IframeParams ELSE link0
        link2 == IF ~StrictEq(popupContent, Null)
                 THEN link1 \o PopupParam \o TemplateString(JSONstringify(popupContent))
                 ELSE link1
    IN  Return(Str(link2))

shelfLink(shelfNumber, options) ==
  IF options.t \in {"undefined", "null"} THEN Throw("TypeError")
  ELSE
    LET popupContent == Default(Prop(options, K_popupContent), Null)
        iframe == Default(Prop(options, K_iframe), Bool(FALSE))
        link0 == ShelfUrlPrefix \o TemplateString(shelfNumber) \o ShelfUrlSuffix
        link1 == IF ~StrictEq(popupContent, Null)
                 THEN link0 \o PopupParam \o TemplateString(JSONstringify(popupContent))
                 ELSE link0
        link2 == IF Truthy(iframe) THEN link1 \o IframeParams ELSE link1
    IN  Return(Str(link2))

\* Variant: the call number is rendered inside the shelf condition
FragmentShelfOnly(shelfNumber, linkToShelf, iconName, callNumber) ==
  [t |-> "fragment",
   children |->
     << IF Truthy(shelfNumber)
        THEN [t |-> "a",
              href |-> linkToShelf,
              target |-> "_blank",
              rel |-> "noreferrer",
              children |-> << [t |-> "Icon", name |-> iconName], shelfNumber >>]
        ELSE shelfNumber,
        Str(<<" ">>),
        IF Truthy(shelfNumber) THEN callNumber ELSE shelfNumber >>]

\* The fragment <>{shelfNumber && (<a ...>...</a>)}{" "}{callNumber}</>
Fragment(shelfNumber, linkToShelf, iconName, callNumber) ==
  [t |-> "fragment",
   children |->
     << IF Truthy(shelfNumber)
        THEN [t |-> "a",
              href |-> linkToShelf,
              target |-> "_blank",
              rel |-> "noreferrer",
              children |-> << [t |-> "Icon", name |-> iconName], shelfNumber >>]
        ELSE shelfNumber,
        Str(<<" ">>),
        callNumber >>]

\* Variant: the link is built with iframe: true
shelfLinkComponentIframe(it, iconArg) ==
  LET iconName == Default(iconArg, Str(DefaultIconName))
      shelfNumber == _get(it, K_shelf, Undefined)
      callNumber == renderCallNumber(it)
  IN  IF callNumber.kind = "throw" THEN callNumber
      ELSE
        LET title == Member(it, K_title)
        IN  IF title.kind = "throw" THEN title
            ELSE
              LET popupContent == Obj(<< <<K_Title, title.value>>,
                                         <<K_CallNumber, callNumber.value>> >>)
                  linkToShelf == shelfLink(shelfNumber,
                                           Obj(<< <<K_popupContent, popupContent>>,
                                                  <<K_iframe, Bool(TRUE)>> >>))
              IN  IF linkToShelf.kind = "throw" THEN linkToShelf
                  ELSE Return(Fragment(shelfNumber, linkToShelf.value,
                                       iconName, callNumber.value))

shelfLinkComponent(it, iconArg) ==
  LET iconName == Default(iconArg, Str(DefaultIconName))
      shelfNumber == _get(it, K_shelf, Undefined)
      callNumber == renderCallNumber(it)
  IN  IF callNumber.kind = "throw" THEN callNumber
      ELSE
        LET title == Member(it, K_title)
        IN  IF title.kind = "throw" THEN title
            ELSE
              LET popupContent == Obj(<< <<K_Title, title.value>>,
                                         <<K_CallNumber, callNumber.value>> >>)
                  linkToShelf == shelfLink(shelfNumber,
                                           Obj(<< <<K_popupContent, popupContent>> >>))
              IN  IF linkToShelf.kind = "throw" THEN linkToShelf
                  ELSE Return(Fragment(shelfNumber, linkToShelf.value,
                                       iconName, callNumber.value))

getDisplayVal(configField, value) ==
  LET field == _get(invenioConfig, configField.chars, Undefined)
      found == Find(field, K_value, value)
  IN  IF found.kind = "throw" THEN found
      ELSE Member(found.value, K_text)

---------------------------------------------------------------------------
(* Inputs *)

SeqsUpTo(S, n) == UNION {[1..k -> S] : k \in 0..n}

QA76 == <<"Q", "A", "7", "6">>
ISBN == <<"I", "S", "B", "N">>

IdentifierEntries ==
  { Obj(<< <<K_scheme, Str(CALL_NUMBER)>>, <<K_value, Str(QA76)>> >>),
    Obj(<< <<K_scheme, Str(CALL_NUMBER)>>, <<K_value, Str(<<>>)>> >>),
    Obj(<< <<K_scheme, Str(ISBN)>>, <<K_value, Str(QA76)>> >>) }

IdentifierFields ==
  {Absent, Null} \cup {Arr(s) : s \in SeqsUpTo(IdentifierEntries, MaxIdentifiers)}

ShelfFields == {Absent, Null, Str(<<>>), Str(<<"B", "1", "2">>)}

TitleFields == {Absent, Str(<<"X", "\"">>)}

Items ==
  { Obj(<< <<K_identifiers, ids>>, <<K_shelf, sh>>, <<K_title, ti>> >>) :
      ids \in IdentifierFields, sh \in ShelfFields, ti \in TitleFields }

K_status == <<"s", "t", "a", "t", "u", "s">>
K_medium == <<"m", "e", "d", "i", "u", "m">>

ConfigEntries ==
  { Obj(<< <<K_value, Num(1)>>, <<K_text, Str(<<"A">>)>> >>),
    Obj(<< <<K_value, Num(1)>>, <<K_text, Str(<<"B">>)>> >>),
    Obj(<< <<K_value, Str(<<"1">>)>>, <<K_text, Str(<<"C">>)>> >>) }

Configs ==
  {Obj(<<>>)} \cup
  { Obj(<< <<K_status, Arr(s)>> >>) : s \in SeqsUpTo(ConfigEntries, MaxEntries) }

ConfigFieldArgs == {Str(K_status), Str(K_medium)}
ValueArgs == {Num(1), Str(<<"1">>), Num(2)}
ShelfNumberArgs == {Undefined, Str(<<"B", "1", "2">>)}
PopupContentArgs == {Absent, Null, Obj(<< <<K_Title, Str(<<"X">>)>> >>)}
IframeArgs == {Absent, Bool(FALSE), Bool(TRUE)}
IconArgs == {Undefined, Str(<<"b", "o", "o", "k">>)}

---------------------------------------------------------------------------
(* The host application calls the helpers *)

\* Nothing has been rendered yet with this icon argument
NotRendered == [t |-> "none"]

SampleItem ==
  Obj(<< <<K_identifiers,
           Arr(<< Obj(<< <<K_scheme, Str(CALL_NUMBER)>>, <<K_value, Str(QA76)>> >>) >>)>>,
         <<K_shelf, Str(<<"B", "1", "2">>)>>,
         <<K_title, Str(<<"X", "\"">>)>> >>)

SampleConfig ==
  Obj(<< <<K_status,
           Arr(<< Obj(<< <<K_value, Num(1)>>, <<K_text, Str(<<"A">>)>> >>) >>)>> >>)

\* The host has initialised the configuration table and holds a record
Init ==
  /\ \/ invenioConfig = SampleConfig /\ item \in Items
     \/ invenioConfig \in Configs /\ item = SampleItem
  /\ call = [fn |-> "none", args |-> <<>>]
  /\ out = Return(Undefined)
  /\ rendered = [i \in IconArgs |-> NotRendered]

RenderCallNumberCall ==
  /\ call' = [fn |-> "renderCallNumber", args |-> <<item>>]
  /\ out' = renderCallNumber(item)
  /\ UNCHANGED <<invenioConfig, item, rendered>>

ShelfLinkCall(shelfNumber, popupContent, iframe) ==
  LET options == Obj(<< <<K_popupContent, popupContent>>, <<K_iframe, iframe>> >>)
  IN  /\ call' = [fn |-> "shelfLink", args |-> <<shelfNumber, options>>]
      /\ out' = shelfLink(shelfNumber, options)
      /\ UNCHANGED <<invenioConfig, item, rendered>>

\* Variant: the popup metadata is assigned onto the record itself
ShelfLinkComponentCallAssign(iconArg) ==
  /\ call' = [fn |-> "shelfLinkComponent", args |-> <<item, iconArg>>]
  /\ out' = shelfLinkComponent(item, iconArg)
  /\ rendered' = [rendered EXCEPT ![iconArg] =
                    IF @ = NotRendered THEN [first |-> out', again |-> FALSE]
                    ELSE [@ EXCEPT !.again = TRUE]]
  /\ item' = Obj([i \in 1..Len(item.keys) |-> <<item.keys[i], item.props[item.keys[i]]>>]
                   \o << <<K_CallNumber, renderCallNumber(item).value>> >>)
  /\ UNCHANGED invenioConfig

\* Variant: the identifiers are reversed in place before the search
ShelfLinkComponentCallReverse(iconArg) ==
  LET reversed ==
        IF K_identifiers \in DOMAIN item.props /\ item.props[K_identifiers].t = "array"
        THEN [item EXCEPT !.props[K_identifiers].elems =
                [i \in 1..Len(@) |-> @[Len(@) + 1 - i]]]
        ELSE item
  IN  /\ call' = [fn |-> "shelfLinkComponent", args |-> <<reversed, iconArg>>]
      /\ out' = shelfLinkComponent(reversed, iconArg)
      /\ rendered' = [rendered EXCEPT ![iconArg] =
                        IF @ = NotRendered THEN [first |-> out', again |-> FALSE]
                        ELSE [@ EXCEPT !.again = TRUE]]
      /\ item' = reversed
      /\ UNCHANGED invenioConfig

ShelfLinkComponentCall(iconArg) ==
  /\ call' = [fn |-> "shelfLinkComponent", args |-> <<item, iconArg>>]
  /\ out' = shelfLinkComponent(item, iconArg)
  /\ rendered' = [rendered EXCEPT ![iconArg] =
                    IF @ = NotRendered THEN [first |-> out', again |-> FALSE]
                    ELSE [@ EXCEPT !.again = TRUE]]
  /\ UNCHANGED <<invenioConfig, item>>

GetDisplayValCall(configField, value) ==
  /\ call' = [fn |-> "getDisplayVal", args |-> <<configField, value>>]
  /\ out' = getDisplayVal(configField, value)
  /\ UNCHANGED <<invenioConfig, item, rendered>>

Next ==
  \/ RenderCallNumberCall
  \/ \E s \in ShelfNumberArgs, p \in PopupContentArgs, f \in IframeArgs :
       ShelfLinkCall(s, p, f)
  \/ \E i \in IconArgs : ShelfLinkComponentCall(i)
  \/ \E c \in ConfigFieldArgs, v \in ValueArgs : GetDisplayValCall(c, v)

Spec == Init /\ [][Next]_vars

---------------------------------------------------------------------------
(* Vocabulary of the properties *)

Called(fn) == call.fn = fn

HasField(obj, key) == key \in DOMAIN obj.props

IsInfix(t, s) == \E i \in 1..(Len(s) - Len(t) + 1) : SubSeq(s, i, i + Len(t) - 1) = t

IsSuffix(t, s) == Len(t) <= Len(s) /\ SubSeq(s, Len(s) - Len(t) + 1, Len(s)) = t

\* Positions of the identifiers of the record whose scheme is CALL_NUMBER
CallNumberPositions ==
  LET ids == item.props[K_identifiers].elems
  IN  {i \in 1..Len(ids) : ids[i].props[K_scheme].chars = CALL_NUMBER}

IdentifiersIsArray ==
  HasField(item, K_identifiers) /\ item.props[K_identifiers].t = "array"

\* Positions of the entries of a configuration field whose value is v
MatchingPositions(field, v) ==
  LET entries == invenioConfig.props[field].elems
  IN  {i \in 1..Len(entries) : entries[i].props[K_value] = v}

ShelfIsTruthy ==
  /\ HasField(item, K_shelf)
  /\ item.props[K_shelf].t = "string"
  /\ item.props[K_shelf].chars # <<>>

AnchorRendered == out.kind = "return" /\ out.value.children[1].t = "a"

---------------------------------------------------------------------------
(* Properties *)

\* C1: renderCallNumber returns "(" + value + ")" of the first identifier, in
\* sequence order, whose scheme is CALL_NUMBER, and null when the sequence has
\* no such identifier.
C1_FirstCallNumber ==
  (Called("renderCallNumber") /\ IdentifiersIsArray) =>
    LET ids == item.props[K_identifiers].elems
        first == CHOOSE i \in CallNumberPositions : \A j \in CallNumberPositions : i <= j
    IN  IF CallNumberPositions = {}
        THEN out = Return(Null)
        ELSE out = Return(Str(<<"(">> \o ids[first].props[K_value].chars \o <<")">>))

\* Two identifiers of scheme CALL_NUMBER with different values: the first wins
C1_Witness ==
  /\ Called("renderCallNumber")
  /\ IdentifiersIsArray
  /\ CallNumberPositions = {1, 2}
  /\ item.props[K_identifiers].elems[1] # item.props[K_identifiers].elems[2]
  /\ out = Return(Str(<<"(">> \o item.props[K_identifiers].elems[1].props[K_value].chars
                       \o <<")">>))

\* C2: renderCallNumber returns null, and does not throw, when identifiers is
\* null and when the record has no identifiers field.
C2_NullOrAbsentIdentifiers ==
  (Called("renderCallNumber")
     /\ (~HasField(item, K_identifiers) \/ item.props[K_identifiers] = Null)) =>
    out = Return(Null)

\* The record has no identifiers field at all
C2_Witness ==
  /\ Called("renderCallNumber")
  /\ ~HasField(item, K_identifiers)
  /\ out = Return(Null)

\* C3: getDisplayVal throws, and returns nothing, when the field is absent from
\* the configuration table and when no entry of the field has the given value.
C3_LookupFails ==
  Called("getDisplayVal") =>
    LET field == call.args[1].chars
        value == call.args[2]
    IN  (~HasField(invenioConfig, field) \/ MatchingPositions(field, value) = {}) =>
          out.kind = "throw"

\* The field is there with entries, none of them matches, and the call threw
C3_Witness ==
  /\ Called("getDisplayVal")
  /\ HasField(invenioConfig, call.args[1].chars)
  /\ Len(invenioConfig.props[call.args[1].chars].elems) > 0
  /\ MatchingPositions(call.args[1].chars, call.args[2]) = {}
  /\ out.kind = "throw"

\* C4: when the field is in the configuration table and some entry has the
\* given value, getDisplayVal returns the text of the first such entry.
C4_FirstMatchText ==
  Called("getDisplayVal") =>
    LET field == call.args[1].chars
        value == call.args[2]
    IN  (HasField(invenioConfig, field) /\ MatchingPositions(field, value) # {}) =>
          LET m == MatchingPositions(field, value)
              first == CHOOSE i \in m : \A j \in m : i <= j
          IN  out = Return(invenioConfig.props[field].elems[first].props[K_text])

\* Two entries match and carry different texts: the text of the first returns
C4_Witness ==
  /\ Called("getDisplayVal")
  /\ HasField(invenioConfig, call.args[1].chars)
  /\ MatchingPositions(call.args[1].chars, call.args[2]) = {1, 2}
  /\ LET entries == invenioConfig.props[call.args[1].chars].elems
     IN  /\ entries[1].props[K_text] # entries[2].props[K_text]
         /\ out = Return(entries[1].props[K_text])

\* C5: shelfLink returns the base URL with shelfNumber substituted, then the
\* serialized popupContent parameter exactly when options.popupContent is
\* non-null, then the iframe display parameters exactly when options.iframe is
\* true, in that order.
C5_ShelfLinkShape ==
  Called("shelfLink") =>
    LET shelfNumber == call.args[1]
        options == call.args[2]
        withPopup == HasField(options, K_popupContent)
                       /\ options.props[K_popupContent] # Null
        withIframe == HasField(options, K_iframe)
                        /\ options.props[K_iframe] = Bool(TRUE)
        shelfText == IF shelfNumber = Undefined
                     THEN <<"u", "n", "d", "e", "f", "i", "n", "e", "d">>
                     ELSE shelfNumber.chars
    IN  out = Return(Str(ShelfUrlPrefix \o shelfText \o ShelfUrlSuffix
                           \o (IF withPopup
                               THEN PopupParam \o <<"{", "\"", "T", "i", "t", "l", "e", "\"", ":", "\"", "X", "\"", "}">>
                               ELSE <<>>)
                           \o (IF withIframe THEN IframeParams ELSE <<>>)))

\* shelfLink("B12", {popupContent: {Title: "X"}, iframe: true})
C5_Witness ==
  /\ Called("shelfLink")
  /\ call.args[1] = Str(<<"B", "1", "2">>)
  /\ HasField(call.args[2], K_popupContent)
  /\ call.args[2].props[K_popupContent].t = "object"
  /\ HasField(call.args[2], K_iframe)
  /\ call.args[2].props[K_iframe] = Bool(TRUE)
  /\ out = Return(Str(<<"h", "t", "t", "p", "s", ":", "/", "/", "m", "a", "p", "s", ".", "w", "e", "b", ".", "c", "e", "r", "n", ".", "c", "h", "/", "?", "n", "=", "[", "'", "S", "H", "E", "L", "F", " ", "B", "1", "2", "'", "]", "&", "p", "o", "p", "u", "p", "C", "o", "n", "t", "e", "n", "t", "=", "{", "\"", "T", "i", "t", "l", "e", "\"", ":", "\"", "X", "\"", "}", "&", "s", "h", "o", "w", "M", "e", "n", "u", "=", "f", "a", "l", "s", "e", "&", "w", "i", "d", "g", "e", "t", "s", "=", "&", "s", "c", "a", "l", "e", "=", "2", "0", "0">>))

\* C6: shelfLinkComponent renders the anchor (icon and shelf number) exactly
\* when item.shelf is truthy, and renders the call-number text of
\* renderCallNumber(item) whenever that text is not null, anchor or not.
C6_AnchorIffShelf ==
  Called("shelfLinkComponent") =>
    LET callNumber == renderCallNumber(item).value
    IN  /\ AnchorRendered <=> ShelfIsTruthy
        /\ AnchorRendered =>
             /\ out.value.children[1].children[1].t = "Icon"
             /\ out.value.children[1].children[2] = item.props[K_shelf]
        /\ callNumber # Null =>
             /\ out.kind = "return"
             /\ out.value.children[3] = callNumber

\* An empty shelf and a call number: no anchor, the call number is rendered
C6_Witness ==
  /\ Called("shelfLinkComponent")
  /\ HasField(item, K_shelf)
  /\ item.props[K_shelf] = Str(<<>>)
  /\ out.kind = "return"
  /\ out.value.children[1].t # "a"
  /\ out.value.children[3] = Str(<<"(", "Q", "A", "7", "6", ")">>)

\* C7: the href of the rendered anchor is shelfLink(item.shelf, {popupContent:
\* {Title: item.title, "Call number": renderCallNumber(item)}}); it always has
\* the popupContent parameter and never the iframe display parameters.
C7_HrefIsShelfLink ==
  (Called("shelfLinkComponent") /\ AnchorRendered) =>
    LET href == out.value.children[1].href
        popup == Obj(<< <<K_Title, Prop(item, K_title)>>,
                        <<K_CallNumber, renderCallNumber(item).value>> >>)
    IN  /\ Return(href) = shelfLink(item.props[K_shelf],
                                    Obj(<< <<K_popupContent, popup>> >>))
        /\ IsInfix(PopupParam, href.chars)
        /\ ~IsInfix(IframeParams, href.chars)

\* Title X" and call number (QA76) on shelf B12
C7_Witness ==
  /\ Called("shelfLinkComponent")
  /\ AnchorRendered
  /\ out.value.children[1].href = Str(<<"h", "t", "t", "p", "s", ":", "/", "/", "m", "a", "p", "s", ".", "w", "e", "b", ".", "c", "e", "r", "n", ".", "c", "h", "/", "?", "n", "=", "[", "'", "S", "H", "E", "L", "F", " ", "B", "1", "2", "'", "]", "&", "p", "o", "p", "u", "p", "C", "o", "n", "t", "e", "n", "t", "=", "{", "\"", "T", "i", "t", "l", "e", "\"", ":", "\"", "X", "\\", "\"", "\"", ",", "\"", "C", "a", "l", "l", " ", "n", "u", "m", "b", "e", "r", "\"", ":", "\"", "(", "Q", "A", "7", "6", ")", "\"", "}">>)

\* C8: no call, failing or not, changes the configuration table or the record
\* it was given.
C8_InputsUnchanged == [][invenioConfig' = invenioConfig /\ item' = item]_vars

\* A failed getDisplayVal after repeated shelfLinkComponent calls
C8_Witness ==
  /\ Called("getDisplayVal")
  /\ out.kind = "throw"
  /\ \E i \in IconArgs : rendered[i] # NotRendered /\ rendered[i].again

\* C9: every call of shelfLinkComponent with the same item and iconName
\* produces the fragment the first such call produced, whatever was called in
\* between.
C9_SameFragment ==
  Called("shelfLinkComponent") =>
    /\ rendered[call.args[2]] # NotRendered
    /\ out = rendered[call.args[2]].first

\* A repeated call, after a call with the other icon argument
C9_Witness ==
  /\ Called("shelfLinkComponent")
  /\ \A i \in IconArgs : rendered[i] # NotRendered
  /\ rendered[call.args[2]].again
  /\ out.kind = "return"
  /\ out = rendered[call.args[2]].first

\* C10: shelfLinkComponent returns a fragment, and does not throw, for every
\* record: shelf absent or present, identifiers null, absent, empty or
\* populated.
C10_ComponentCompletes ==
  Called("shelfLinkComponent") =>
    /\ out.kind = "return"
    /\ out.value.t = "fragment"

\* Neither a shelf nor identifiers
C10_Witness ==
  /\ Called("shelfLinkComponent")
  /\ ~HasField(item, K_shelf)
  /\ ~HasField(item, K_identifiers)
  /\ out.kind = "return"
  /\ out.value.children[1] = Undefined

====
